---- MODULE Spec2Model ----
(***************************************************************************)
(* Model of RouteOptimization (src/main.py): the road graph built by       *)
(* parse_input, the road index, the route cache, the Dijkstra search, the  *)
(* route parameters lookup and the compromise route selection.             *)
(*                                                                         *)
(* Encoding of Python values:                                              *)
(*   - a graph (defaultdict(list)) is a function from every city id to a   *)
(*     sequence of <<neighbor, length, time, cost>>; a missing key reads   *)
(*     as the empty list, as the defaultdict does;                         *)
(*   - the road index (defaultdict(dict)) is a function whose domain is    *)
(*     the set of <<city, neighbor>> pairs that have an entry;             *)
(*   - the route cache (dict keyed by tuple(route)) is a function whose    *)
(*     domain is a set of node sequences;                                  *)
(*   - a route of None is the empty sequence NoRoute (no list the code     *)
(*     returns is empty), a weight of None is NoWeight;                    *)
(*   - the criterion tags of the source map to "D" (length, index 0),      *)
(*     "T" (time, index 1) and "C" (cost, index 2).                        *)
(***************************************************************************)
EXTENDS Integers, Sequences, FiniteSets, TLC

VARIABLES
    graph,        \* roads: the graph parse_input returned
    road_index,   \* self._road_index
    route_cache,  \* self._route_cache
    pq,           \* dijkstra: the heap, a set of <<weight, node>>
    visited,      \* dijkstra: visited
    parent,       \* dijkstra: parent
    distance,     \* dijkstra: distance
    candidate_routes, \* find_compromise_route: candidate_routes as collected (lines 269-286)
    call,         \* the operation in progress or last completed, with its arguments
    ret,          \* what that operation returned
    pc            \* position: "idle", "loop" (inside dijkstra's while), "done"

vars == <<graph, road_index, route_cache, pq, visited, parent, distance, candidate_routes, call, ret, pc>>

-----------------------------------------------------------------------------
(* Bounds of the explored inputs *)

MaxNode == 3
MaxRoads == 3
MaxRouteLen == 3
MaxPriorities == 3
MaxCache == 2
MaxIndexRoads == 2

Nodes == 1..MaxNode

\* The (length, time, cost) triples a road line may carry.
WeightTriples == {<<0, 0, 0>>, <<1, 1, 1>>, <<2, 1, 0>>, <<1, 2, 1>>}

\* One line of the [ROADS] section: <<cid1, cid2, length, time, cost>>.
RoadLines == {<<a, b>> \o w : <<a, b>> \in {p \in Nodes \X Nodes : p[1] < p[2]}, w \in WeightTriples}

RECURSIVE SeqsUpTo(_, _)
SeqsUpTo(S, n) ==
    IF n = 0 THEN {<<>>}
    ELSE LET shorter == SeqsUpTo(S, n - 1)
         IN shorter \cup {Append(s, x) : s \in {t \in shorter : Len(t) = n - 1}, x \in S}

\* The example of the documentation: A-B (5,1,10), B-C (5,1,10), A-C (11,1,1).
ScenarioRoads == << <<1, 2, 5, 1, 10>>, <<2, 3, 5, 1, 10>>, <<1, 3, 11, 1, 1>> >>

InputRoads == SeqsUpTo(RoadLines, MaxRoads) \cup {ScenarioRoads}

Criteria == {0, 1, 2}

NoRoute == <<>>
NoWeight == -1
EmptyMap == [x \in {} |-> 0]

Put(f, k, v) == [x \in (DOMAIN f) \cup {k} |-> IF x = k THEN v ELSE f[x]]

-----------------------------------------------------------------------------
(* parse_input: the [ROADS] section, and build_road_index *)

EmptyGraph == [n \in Nodes |-> <<>>]

\* roads[cid1].append((cid2, ...)); roads[cid2].append((cid1, ...))
AddRoad(g, line) ==
    LET g1 == [g EXCEPT ![line[1]] = Append(@, <<line[2], line[3], line[4], line[5]>>)]
    IN [g1 EXCEPT ![line[2]] = Append(@, <<line[1], line[3], line[4], line[5]>>)]

RECURSIVE ParseRoads(_)
ParseRoads(lines) ==
    IF lines = <<>> THEN EmptyGraph
    ELSE AddRoad(ParseRoads(SubSeq(lines, 1, Len(lines) - 1)), lines[Len(lines)])

\* self._road_index[city][neighbor] = (length, time, cost), in list order:
\* a later entry for the same neighbor overwrites an earlier one.
RECURSIVE IndexEdges(_, _, _)
IndexEdges(idx, city, adj) ==
    IF adj = <<>> THEN idx
    ELSE IndexEdges(Put(idx, <<city, Head(adj)[1]>>, <<Head(adj)[2], Head(adj)[3], Head(adj)[4]>>),
                    city, Tail(adj))

RECURSIVE IndexCities(_, _, _)
IndexCities(idx, g, cities) ==
    IF cities = {} THEN idx
    ELSE LET city == CHOOSE c \in cities : \A d \in cities : c <= d
         IN IndexCities(IndexEdges(idx, city, g[city]), g, cities \ {city})

BuildRoadIndex(g) == IndexCities(EmptyMap, g, DOMAIN g)

-----------------------------------------------------------------------------
(* dijkstra *)

\* heapq.heappop on (weight, node) tuples: the least tuple.
HeapMin(q) ==
    CHOOSE e \in q : \A f \in q : e[1] < f[1] \/ (e[1] = f[1] /\ e[2] <= f[2])

\* [length, time, cost][weight_idx] of an adjacency entry
EdgeWeight(edge, weight_idx) == edge[weight_idx + 2]

\* Mutant: a city that has a tentative distance is never relaxed again.
RelaxEdgeNoImprove(st, current_weight, current_node, edge, weight_idx) ==
    LET neighbor == edge[1]
        new_dist == current_weight + EdgeWeight(edge, weight_idx)
    IN IF neighbor \in st.visited \/ neighbor \in DOMAIN st.distance THEN st
       ELSE [st EXCEPT !.distance = Put(@, neighbor, new_dist),
                       !.parent = Put(@, neighbor, current_node),
                       !.pq = @ \cup {<<new_dist, neighbor>>}]

\* Mutant: the relaxed city is not pushed on the heap.
RelaxEdgeNoPush(st, current_weight, current_node, edge, weight_idx) ==
    LET neighbor == edge[1]
        new_dist == current_weight + EdgeWeight(edge, weight_idx)
    IN IF neighbor \in st.visited THEN st
       ELSE IF neighbor \notin DOMAIN st.distance \/ new_dist < st.distance[neighbor]
            THEN [st EXCEPT !.distance = Put(@, neighbor, new_dist),
                            !.parent = Put(@, neighbor, current_node)]
            ELSE st

\* The body of the loop over graph[current_node] for one entry.
\* st is the record of dijkstra's locals pq, visited, parent, distance.
RelaxEdge(st, current_weight, current_node, edge, weight_idx) ==
    LET neighbor == edge[1]
        new_dist == current_weight + EdgeWeight(edge, weight_idx)
    IN IF neighbor \in st.visited THEN st
       ELSE IF neighbor \notin DOMAIN st.distance \/ new_dist < st.distance[neighbor]
            THEN [st EXCEPT !.distance = Put(@, neighbor, new_dist),
                            !.parent = Put(@, neighbor, current_node),
                            !.pq = @ \cup {<<new_dist, neighbor>>}]
            ELSE st

RECURSIVE RelaxAll(_, _, _, _, _)
RelaxAll(st, current_weight, current_node, adj, weight_idx) ==
    IF adj = <<>> THEN st
    ELSE RelaxAll(RelaxEdge(st, current_weight, current_node, Head(adj), weight_idx),
                  current_weight, current_node, Tail(adj), weight_idx)

\* Mutant: the walk stops before the city that has no parent.
RECURSIVE WalkBackWithoutStart(_, _)
WalkBackWithoutStart(par, node) ==
    IF node \in DOMAIN par THEN Append(WalkBackWithoutStart(par, par[node]), node)
    ELSE <<>>

\* The path from the parent pointers, already reversed (path[::-1]).
RECURSIVE WalkBack(_, _)
WalkBack(par, node) ==
    IF node \in DOMAIN par THEN Append(WalkBack(par, par[node]), node)
    ELSE <<node>>

SearchStart(start) ==
    [pq |-> {<<0, start>>}, visited |-> {}, parent |-> EmptyMap, distance |-> Put(EmptyMap, start, 0)]

\* One pop: the state after heappop and visited.add
Popped(st) ==
    [st EXCEPT !.pq = @ \ {HeapMin(st.pq)}]

RECURSIVE DijkstraLoop(_, _, _, _)
DijkstraLoop(g, end, weight_idx, st) ==
    IF st.pq = {} THEN [path |-> NoRoute, weight |-> NoWeight]
    ELSE LET top == HeapMin(st.pq)
             rest == Popped(st)
         IN IF top[2] \in st.visited THEN DijkstraLoop(g, end, weight_idx, rest)
            ELSE LET seen == [rest EXCEPT !.visited = @ \cup {top[2]}]
                 IN IF top[2] = end
                    THEN [path |-> WalkBack(seen.parent, end), weight |-> top[1]]
                    ELSE DijkstraLoop(g, end, weight_idx,
                                      RelaxAll(seen, top[1], top[2], g[top[2]], weight_idx))

Dijkstra(g, start, end, weight_idx) == DijkstraLoop(g, end, weight_idx, SearchStart(start))

-----------------------------------------------------------------------------
(* get_route_params *)

ZeroParams == <<0, 0, 0>>

AddParams(a, b) == <<a[1] + b[1], a[2] + b[2], a[3] + b[3]>>

\* Mutant: a pair without an index entry is skipped.
RECURSIVE SumRouteSkipsMissing(_, _, _, _)
SumRouteSkipsMissing(index, route, i, total) ==
    IF i > Len(route) - 1 THEN [raised |-> FALSE, value |-> total]
    ELSE IF <<route[i], route[i + 1]>> \in DOMAIN index
         THEN SumRouteSkipsMissing(index, route, i + 1,
                                   AddParams(total, index[<<route[i], route[i + 1]>>]))
         ELSE SumRouteSkipsMissing(index, route, i + 1, total)

\* The loop over range(len(route) - 1), from position i with the totals so far:
\* a pair without an index entry raises ValueError at once.
RECURSIVE SumRoute(_, _, _, _)
SumRoute(index, route, i, total) ==
    IF i > Len(route) - 1 THEN [raised |-> FALSE, value |-> total]
    ELSE IF <<route[i], route[i + 1]>> \in DOMAIN index
         THEN SumRoute(index, route, i + 1, AddParams(total, index[<<route[i], route[i + 1]>>]))
         ELSE [raised |-> TRUE, value |-> <<>>]

\* Mutant: the cache is keyed by the endpoints of the route.
GetRouteParamsByEndpoints(cache, index, route) ==
    LET key == <<route[1], route[Len(route)]>>
    IN IF key \in DOMAIN cache
       THEN [raised |-> FALSE, value |-> cache[key], cache |-> cache]
       ELSE LET sum == SumRoute(index, route, 1, ZeroParams)
            IN IF sum.raised
               THEN [raised |-> TRUE, value |-> <<>>, cache |-> cache]
               ELSE [raised |-> FALSE, value |-> sum.value, cache |-> Put(cache, key, sum.value)]

\* The call's outcome: whether it raised, the returned triple, and the cache after it.
GetRouteParams(cache, index, route) ==
    IF route \in DOMAIN cache
    THEN [raised |-> FALSE, value |-> cache[route], cache |-> cache]
    ELSE LET sum == SumRoute(index, route, 1, ZeroParams)
         IN IF sum.raised
            THEN [raised |-> TRUE, value |-> <<>>, cache |-> cache]
            ELSE [raised |-> FALSE, value |-> sum.value, cache |-> Put(cache, route, sum.value)]

-----------------------------------------------------------------------------
(* find_compromise_route *)

Tags == {"D", "T", "C"}

\* Mutant: the tags of length and cost are exchanged.
TagPosExchanged(tag) == CASE tag = "D" -> 3 [] tag = "T" -> 2 [] tag = "C" -> 1

\* weights = {tag: index}: the position of a tag's value in the params triple
TagPos(tag) == CASE tag = "D" -> 1 [] tag = "T" -> 2 [] tag = "C" -> 3

\* The three searches, in the order of weights.items().
SearchRoutes(g, start_id, end_id) ==
    <<Dijkstra(g, start_id, end_id, 0).path,
      Dijkstra(g, start_id, end_id, 1).path,
      Dijkstra(g, start_id, end_id, 2).path>>

\* Collecting the unique routes with their params, from position i on.
\* acc: [candidates: sequence of [route, params], cache, raised].
RECURSIVE CollectCandidates(_, _, _, _)
CollectCandidates(routes, i, index, acc) ==
    IF i > Len(routes) \/ acc.raised THEN acc
    ELSE IF routes[i] = NoRoute \/ (\E k \in 1..Len(acc.candidates) : acc.candidates[k].route = routes[i])
         THEN CollectCandidates(routes, i + 1, index, acc)
         ELSE LET got == GetRouteParams(acc.cache, index, routes[i])
              IN CollectCandidates(routes, i + 1, index,
                    IF got.raised THEN [acc EXCEPT !.raised = TRUE]
                    ELSE [acc EXCEPT !.candidates = Append(@, [route |-> routes[i], params |-> got.value]),
                                     !.cache = got.cache])

MinOf(S) == CHOOSE m \in S : \A x \in S : m <= x

\* Mutant: a round keeps the candidates of greatest value.
FilterRoundMax(candidates, tag) ==
    LET max_value == CHOOSE m \in {candidates[k].params[TagPos(tag)] : k \in 1..Len(candidates)} :
                        \A k \in 1..Len(candidates) : candidates[k].params[TagPos(tag)] <= m
    IN SelectSeq(candidates, LAMBDA c : c.params[TagPos(tag)] = max_value)

\* Mutant: a round keeps the candidates below the minimum, that is none.
FilterRoundBelowMin(candidates, tag) ==
    LET min_value == MinOf({candidates[k].params[TagPos(tag)] : k \in 1..Len(candidates)})
    IN SelectSeq(candidates, LAMBDA c : c.params[TagPos(tag)] < min_value)

\* One filtering round: keep the candidates whose value for the tag is the minimum.
FilterRound(candidates, tag) ==
    LET min_value == MinOf({candidates[k].params[TagPos(tag)] : k \in 1..Len(candidates)})
    IN SelectSeq(candidates, LAMBDA c : c.params[TagPos(tag)] = min_value)

RECURSIVE FilterByPriorities(_, _)
FilterByPriorities(candidates, priorities) ==
    IF priorities = <<>> \/ candidates = <<>> THEN candidates
    ELSE FilterByPriorities(FilterRound(candidates, Head(priorities)), Tail(priorities))

-----------------------------------------------------------------------------
(* One dijkstra call, one iteration of its while loop per step *)

Locals == [pq |-> pq, visited |-> visited, parent |-> parent, distance |-> distance]

SetLocals(st) ==
    /\ pq' = st.pq
    /\ visited' = st.visited
    /\ parent' = st.parent
    /\ distance' = st.distance

\* The state after parse_input (build_road_index included) on the given road lines.
Parsed(roads) ==
    /\ graph = ParseRoads(roads)
    /\ road_index = BuildRoadIndex(ParseRoads(roads))
    /\ route_cache = EmptyMap

InitSearch ==
    \E roads \in InputRoads, start \in Nodes, end \in Nodes, weight_idx \in Criteria :
        /\ Parsed(roads)
        /\ pq = SearchStart(start).pq
        /\ visited = SearchStart(start).visited
        /\ parent = SearchStart(start).parent
        /\ distance = SearchStart(start).distance
        /\ candidate_routes = <<>>
        /\ call = [op |-> "dijkstra", start |-> start, end |-> end, weight_idx |-> weight_idx]
        /\ ret = [path |-> NoRoute, weight |-> NoWeight]
        /\ pc = "loop"

\* if current_node in visited: continue
DijkstraSkip ==
    /\ pc = "loop"
    /\ pq # {}
    /\ HeapMin(pq)[2] \in visited
    /\ SetLocals(Popped(Locals))
    /\ UNCHANGED <<graph, road_index, route_cache, candidate_routes, call, ret, pc>>

\* if current_node == end: rebuild the path and return
DijkstraFound ==
    /\ pc = "loop"
    /\ pq # {}
    /\ HeapMin(pq)[2] \notin visited
    /\ HeapMin(pq)[2] = call.end
    /\ SetLocals([Popped(Locals) EXCEPT !.visited = @ \cup {HeapMin(pq)[2]}])
    /\ ret' = [path |-> WalkBack(parent, call.end), weight |-> HeapMin(pq)[1]]
    /\ pc' = "done"
    /\ UNCHANGED <<graph, road_index, route_cache, candidate_routes, call>>

\* for neighbor, length, time, cost in graph[current_node]: ...
DijkstraRelax ==
    /\ pc = "loop"
    /\ pq # {}
    /\ HeapMin(pq)[2] \notin visited
    /\ HeapMin(pq)[2] # call.end
    /\ LET top == HeapMin(pq)
           seen == [Popped(Locals) EXCEPT !.visited = @ \cup {top[2]}]
       IN SetLocals(RelaxAll(seen, top[1], top[2], graph[top[2]], call.weight_idx))
    /\ UNCHANGED <<graph, road_index, route_cache, candidate_routes, call, ret, pc>>

\* the while loop ends on an empty heap: return None, None
DijkstraExhausted ==
    /\ pc = "loop"
    /\ pq = {}
    /\ ret' = [path |-> NoRoute, weight |-> NoWeight]
    /\ pc' = "done"
    /\ UNCHANGED <<graph, road_index, route_cache, pq, visited, parent, distance, candidate_routes, call>>

NextSearch == DijkstraSkip \/ DijkstraFound \/ DijkstraRelax \/ DijkstraExhausted

SpecSearch == InitSearch /\ [][NextSearch]_vars

\* The loop is sequential code: an enabled iteration is executed.
SpecSearchFair == SpecSearch /\ WF_vars(NextSearch)

-----------------------------------------------------------------------------------------------------------------------------------------------------
(* calculate on a new object and an input file with one request line, one    *)
(* phase per step: parse_input (the initial state), the three optimal routes *)
(* with their params, find_compromise_route in two steps (the searches and   *)
(* the candidates, then the filtering), and the finally block.               *)
(* The priorities argument is drawn at the step that first reads it (line    *)
(* 292): the steps before it do not depend on it.                            *)

NoLocals ==
    /\ pq = {}
    /\ visited = {}
    /\ parent = EmptyMap
    /\ distance = EmptyMap

PriorityLists == SeqsUpTo(Tags, MaxPriorities)

InitBatch ==
    \E roads \in InputRoads :
        /\ Parsed(roads)
        /\ NoLocals
        /\ candidate_routes = <<>>
        /\ call = [op |-> "parse_input"]
        /\ ret = [raised |-> FALSE]
        /\ pc = "parsed"

\* Lines 58-66: get_route_params for the found routes, in the order D, T, C,
\* from position i on. acc: [params: sequence of triples, cache, raised].
RECURSIVE RouteRows(_, _, _, _)
RouteRows(routes, i, index, acc) ==
    IF i > Len(routes) \/ acc.raised THEN acc
    ELSE IF routes[i] = NoRoute
         THEN RouteRows(routes, i + 1, index, [acc EXCEPT !.params = Append(@, <<>>)])
         ELSE LET got == GetRouteParams(acc.cache, index, routes[i])
              IN RouteRows(routes, i + 1, index,
                    IF got.raised THEN [acc EXCEPT !.raised = TRUE]
                    ELSE [acc EXCEPT !.params = Append(@, got.value), !.cache = got.cache])

\* Lines 45-66 for the request start -> end.
CalcRoutes(start, end) ==
    /\ pc = "parsed"
    /\ LET found == <<Dijkstra(graph, start, end, 0),
                       Dijkstra(graph, start, end, 1),
                       Dijkstra(graph, start, end, 2)>>
           routes == <<found[1].path, found[2].path, found[3].path>>
           rows == RouteRows(routes, 1, road_index,
                             [params |-> <<>>, cache |-> route_cache, raised |-> FALSE])
       IN /\ route_cache' = rows.cache
          /\ call' = [op |-> "optimal_routes", start |-> start, end |-> end]
          /\ ret' = [raised |-> rows.raised,
                     routes |-> routes,
                     weights |-> <<found[1].weight, found[2].weight, found[3].weight>>,
                     params |-> rows.params]
          /\ pc' = IF rows.raised THEN "failed" ELSE "routes"
    /\ UNCHANGED <<graph, road_index, pq, visited, parent, distance, candidate_routes>>

\* find_compromise_route, lines 260-289: the searches, the candidates, and
\* the return of None when there is none.
FcrCollect ==
    /\ pc = "routes"
    /\ LET got == CollectCandidates(SearchRoutes(graph, call.start, call.end), 1, road_index,
                                    [candidates |-> <<>>, cache |-> route_cache, raised |-> FALSE])
       IN /\ route_cache' = got.cache
          /\ candidate_routes' = got.candidates
          /\ call' = [op |-> "find_compromise_route", start |-> call.start, end |-> call.end]
          /\ ret' = [raised |-> got.raised, route |-> NoRoute, params |-> <<>>]
          /\ pc' = IF got.raised THEN "failed"
                   ELSE IF got.candidates = <<>> THEN "compromise"
                   ELSE "candidates"
    /\ UNCHANGED <<graph, road_index, pq, visited, parent, distance>>

\* find_compromise_route, lines 291-301, and the params of the returned
\* route (line 72).
FcrFilter(priorities) ==
    /\ pc = "candidates"
    /\ LET left == FilterByPriorities(candidate_routes, priorities)
           route == IF left # <<>> THEN left[1].route ELSE NoRoute
           row == IF route = NoRoute
                  THEN [raised |-> FALSE, value |-> <<>>, cache |-> route_cache]
                  ELSE GetRouteParams(route_cache, road_index, route)
       IN /\ route_cache' = row.cache
          /\ call' = [op |-> "find_compromise_route", start |-> call.start, end |-> call.end,
                      priorities |-> priorities]
          /\ ret' = [raised |-> row.raised, route |-> route, params |-> row.value]
          /\ pc' = IF row.raised THEN "failed" ELSE "compromise"
    /\ UNCHANGED <<graph, road_index, pq, visited, parent, distance, candidate_routes>>

\* Lines 84-87: the finally block.
CalcFinally ==
    /\ pc \in {"compromise", "failed"}
    /\ route_cache' = EmptyMap
    /\ road_index' = EmptyMap
    /\ candidate_routes' = <<>>
    /\ call' = [op |-> "finally"]
    /\ ret' = [raised |-> pc = "failed"]
    /\ pc' = "cleared"
    /\ UNCHANGED <<graph, pq, visited, parent, distance>>

NextBatch ==
    \/ \E start \in Nodes, end \in Nodes : CalcRoutes(start, end)
    \/ FcrCollect
    \/ \E priorities \in PriorityLists : FcrFilter(priorities)
    \/ CalcFinally

SpecBatch == InitBatch /\ [][NextBatch]_vars

-----------------------------------------------------------------------------
(* One RouteOptimization object and the calls made on it: a call is one step *)
(* (pc = "returned", with its arguments in call and its result in ret), and  *)
(* Return hands control back to the caller (pc = "idle").                    *)

\* The road lines of the files parsed on the object: one road per pair of
\* cities, and a second road 1 - 2 with other weights.
IndexLines == {<<1, 2, 1, 1, 1>>, <<1, 2, 2, 1, 0>>, <<2, 3, 2, 1, 0>>, <<1, 3, 1, 2, 1>>}

\* The routes get_route_params is called with.
Routes == SeqsUpTo(Nodes, MaxRouteLen) \ {<<>>}

\* __init__
Init ==
    /\ graph = EmptyGraph
    /\ road_index = EmptyMap
    /\ route_cache = EmptyMap
    /\ NoLocals
    /\ candidate_routes = <<>>
    /\ call = [op |-> "none"]
    /\ ret = [raised |-> FALSE]
    /\ pc = "idle"

\* parse_input on a file with the given road lines: it ends with build_road_index.
ParseInput(roads) ==
    /\ pc = "idle"
    /\ graph' = ParseRoads(roads)
    /\ road_index' = BuildRoadIndex(ParseRoads(roads))
    /\ call' = [op |-> "parse_input"]
    /\ ret' = [raised |-> FALSE]
    /\ pc' = "returned"
    /\ UNCHANGED <<route_cache, pq, visited, parent, distance, candidate_routes>>

\* build_road_index called with a graph: the index is replaced, nothing else.
BuildRoadIndexCall(g) ==
    /\ pc = "idle"
    /\ graph' = g
    /\ road_index' = BuildRoadIndex(g)
    /\ call' = [op |-> "build_road_index"]
    /\ ret' = [raised |-> FALSE]
    /\ pc' = "returned"
    /\ UNCHANGED <<route_cache, pq, visited, parent, distance, candidate_routes>>

\* get_route_params(route). The cache is kept to MaxCache entries.
\* ret.hit tells whether line 221 found the route in the cache.
GetRouteParamsCall(route) ==
    /\ pc = "idle"
    /\ route \in DOMAIN route_cache \/ Cardinality(DOMAIN route_cache) < MaxCache
    /\ LET got == GetRouteParams(route_cache, road_index, route)
       IN /\ route_cache' = got.cache
          /\ call' = [op |-> "get_route_params", route |-> route]
          /\ ret' = [raised |-> got.raised, value |-> got.value, hit |-> route \in DOMAIN route_cache]
    /\ pc' = "returned"
    /\ UNCHANGED <<graph, road_index, pq, visited, parent, distance, candidate_routes>>

\* calculate, as one step. Whatever the file holds and whether or not an
\* exception is swallowed, it returns None and its finally block has cleared
\* the cache and the index; roads is a local. Its phases, and the lines it
\* writes, are the steps of SpecBatch.
Calculate ==
    /\ pc = "idle"
    /\ route_cache' = EmptyMap
    /\ road_index' = EmptyMap
    /\ graph' = EmptyGraph
    /\ call' = [op |-> "calculate"]
    /\ ret' = [raised |-> FALSE]
    /\ pc' = "returned"
    /\ UNCHANGED <<pq, visited, parent, distance, candidate_routes>>

Return ==
    /\ pc = "returned"
    /\ call' = [op |-> "none"]
    /\ ret' = [raised |-> FALSE]
    /\ pc' = "idle"
    /\ UNCHANGED <<graph, road_index, route_cache, pq, visited, parent, distance, candidate_routes>>

Next ==
    \/ \E roads \in SeqsUpTo(IndexLines, MaxIndexRoads) : ParseInput(roads)
    \/ \E roads \in SeqsUpTo(IndexLines, MaxIndexRoads) : BuildRoadIndexCall(ParseRoads(roads))
    \/ \E route \in Routes : GetRouteParamsCall(route)
    \/ Calculate
    \/ Return

Spec == Init /\ [][Next]_vars

-----------------------------------------------------------------------------
(* get_route_params on an object whose index was built once, by parse_input  *)
(* on a new object, as calculate does before its first request.              *)

InitParams ==
    \E roads \in SeqsUpTo(IndexLines, MaxRoads) :
        /\ Parsed(roads)
        /\ NoLocals
        /\ candidate_routes = <<>>
        /\ call = [op |-> "parse_input"]
        /\ ret = [raised |-> FALSE]
        /\ pc = "idle"

NextParams ==
    \/ \E route \in Routes : GetRouteParamsCall(route)
    \/ Return

SpecParams == InitParams /\ [][NextParams]_vars

-----------------------------------------------------------------------------
(* Reference definitions the properties are stated with *)

HasEdge(g, a, b) == \E i \in 1..Len(g[a]) : g[a][i][1] = b

\* The least weight among the roads from a to b.
LeastEdge(g, a, b, weight_idx) ==
    MinOf({EdgeWeight(g[a][i], weight_idx) : i \in {j \in 1..Len(g[a]) : g[a][j][1] = b}})

RECURSIVE PathWeight(_, _, _)
PathWeight(g, path, weight_idx) ==
    IF Len(path) <= 1 THEN 0
    ELSE LeastEdge(g, path[1], path[2], weight_idx) + PathWeight(g, Tail(path), weight_idx)

IsPath(g, path, start, end) ==
    /\ Len(path) >= 1
    /\ path[1] = start
    /\ path[Len(path)] = end
    /\ \A i \in 1..(Len(path) - 1) : HasEdge(g, path[i], path[i + 1])

RECURSIVE ReachableWithin(_, _, _)
ReachableWithin(g, start, k) ==
    IF k = 0 THEN {start}
    ELSE LET near == ReachableWithin(g, start, k - 1)
         IN near \cup {b \in Nodes : \E a \in near : HasEdge(g, a, b)}

Reachable(g, start, end) == end \in ReachableWithin(g, start, MaxNode)

\* Bellman-Ford: the least weight of a walk from start with at most k roads,
\* for every node such a walk reaches.
RECURSIVE LeastWithin(_, _, _, _)
LeastWithin(g, start, weight_idx, k) ==
    IF k = 0 THEN Put(EmptyMap, start, 0)
    ELSE LET d == LeastWithin(g, start, weight_idx, k - 1)
             via(b) == {d[a] + LeastEdge(g, a, b, weight_idx) : a \in {x \in DOMAIN d : HasEdge(g, x, b)}}
             all(b) == via(b) \cup (IF b \in DOMAIN d THEN {d[b]} ELSE {})
         IN [b \in {x \in Nodes : all(x) # {}} |-> MinOf(all(b))]

ShortestWeight(g, start, end, weight_idx) == LeastWithin(g, start, weight_idx, MaxNode)[end]

-----------------------------------------------------------------------------
(* Properties of the search *)

SearchDone == pc = "done" /\ call.op = "dijkstra"

\* C1: when end is reachable, dijkstra returns a path from start to end along
\* roads of the graph, and a weight that is both the sum of the chosen weight
\* along this path and the least such sum over all paths from start to end.
C1_ShortestPath ==
    (SearchDone /\ Reachable(graph, call.start, call.end)) =>
        /\ IsPath(graph, ret.path, call.start, call.end)
        /\ ret.weight = PathWeight(graph, ret.path, call.weight_idx)
        /\ ret.weight = ShortestWeight(graph, call.start, call.end, call.weight_idx)

\* A detour over a third city is returned although a direct road exists.
C1_Witness ==
    /\ SearchDone
    /\ Len(ret.path) = 3
    /\ HasEdge(graph, call.start, call.end)
    /\ ret.weight < LeastEdge(graph, call.start, call.end, call.weight_idx)

\* C6: every search terminates, and it returns None exactly when end is not
\* reachable from start.
C6_TerminatesNoneIffUnreachable ==
    /\ <>(pc = "done")
    /\ [](SearchDone => (ret.path = NoRoute <=> ~Reachable(graph, call.start, call.end)))

\* The frontier is exhausted after the search left the start city.
C6_Witness ==
    /\ SearchDone
    /\ ret.path = NoRoute
    /\ ret.weight = NoWeight
    /\ pq = {}
    /\ Cardinality(visited) >= 2

\* C7 as stated: start == end yields [start] with params (0, 0, 0), and no
\* heap pop has been executed.
C7_ReflexiveWithoutPop ==
    (SearchDone /\ call.start = call.end) =>
        /\ ret.path = <<call.start>>
        /\ GetRouteParams(route_cache, road_index, ret.path).value = ZeroParams
        /\ pq = SearchStart(call.start).pq
        /\ visited = {}

\* C7 amended: start == end yields [start] with weight 0 and params (0, 0, 0)
\* in the first iteration of the loop: one pop, which marks start visited, and
\* no relaxation (parent and distance are as initialised).
C7_ReflexiveAfterOnePop ==
    (call.op = "dijkstra" /\ call.start = call.end) =>
        \/ pc = "loop" /\ Locals = SearchStart(call.start)
        \/ /\ pc = "done"
           /\ ret = [path |-> <<call.start>>, weight |-> 0]
           /\ GetRouteParams(route_cache, road_index, ret.path).raised = FALSE
           /\ GetRouteParams(route_cache, road_index, ret.path).value = ZeroParams
           /\ pq = {}
           /\ visited = {call.start}
           /\ parent = EmptyMap
           /\ distance = SearchStart(call.start).distance

C7_Witness ==
    /\ SearchDone
    /\ call.start = call.end
    /\ graph[call.start] # <<>>
    /\ ret.path = <<call.start>>

-----------------------------------------------------------------------------
(* Properties of the compromise route and of the reported params *)

RouteValid(index, route) ==
    \A i \in 1..(Len(route) - 1) : <<route[i], route[i + 1]>> \in DOMAIN index

\* The sums of the index entries along a route whose pairs all have one.
RECURSIVE IndexTotals(_, _)
IndexTotals(index, route) ==
    IF Len(route) <= 1 THEN ZeroParams
    ELSE AddParams(index[<<route[1], route[2]>>], IndexTotals(index, Tail(route)))

\* A params triple read in the order of the priorities.
PriorityKey(params, priorities) == [k \in 1..Len(priorities) |-> params[TagPos(priorities[k])]]

LexLeq(a, b) ==
    \/ a = b
    \/ \E k \in 1..Len(a) : a[k] < b[k] /\ \A j \in 1..(k - 1) : a[j] = b[j]

FoundRoutes == {Dijkstra(graph, call.start, call.end, i).path : i \in Criteria} \ {NoRoute}

CompromiseReturned == pc = "compromise" /\ call.op = "find_compromise_route"

Filtered == CompromiseReturned /\ "priorities" \in DOMAIN call

\* C2: the candidates are the distinct routes of the three searches, each once,
\* with the sums of its index entries; when end is reachable the returned route
\* is a candidate whose params, read in the priority order, are
\* lexicographically least among the candidates.
C2_LexicographicMinimum ==
    /\ pc = "candidates" =>
        /\ {candidate_routes[k].route : k \in 1..Len(candidate_routes)} = FoundRoutes
        /\ Len(candidate_routes) = Cardinality(FoundRoutes)
        /\ \A k \in 1..Len(candidate_routes) :
              /\ RouteValid(road_index, candidate_routes[k].route)
              /\ candidate_routes[k].params = IndexTotals(road_index, candidate_routes[k].route)
    /\ (CompromiseReturned /\ Reachable(graph, call.start, call.end)) =>
        /\ Filtered
        /\ \E k \in 1..Len(candidate_routes) :
              /\ candidate_routes[k].route = ret.route
              /\ ret.params = candidate_routes[k].params
              /\ \A j \in 1..Len(candidate_routes) :
                    LexLeq(PriorityKey(candidate_routes[k].params, call.priorities),
                           PriorityKey(candidate_routes[j].params, call.priorities))

\* Two candidates tie on the first priority and the second one decides
\* against the first candidate.
C2_Witness ==
    /\ Filtered
    /\ Len(candidate_routes) = 2
    /\ Len(call.priorities) = 3
    /\ candidate_routes[1].params[TagPos(call.priorities[1])]
          = candidate_routes[2].params[TagPos(call.priorities[1])]
    /\ candidate_routes[2].params[TagPos(call.priorities[2])]
          < candidate_routes[1].params[TagPos(call.priorities[2])]
    /\ ret.route = candidate_routes[2].route

ScenarioRequest(priorities) ==
    /\ Filtered
    /\ graph = ParseRoads(ScenarioRoads)
    /\ call.start = 1
    /\ call.end = 3
    /\ call.priorities = priorities

\* C3 as stated: in the example graph the request A -> C with the priorities
\* [distance, cost, time] selects the direct route A -> C.
C3_ScenarioSelectsDirect ==
    ScenarioRequest(<<"D", "C", "T">>) => ret.route = <<1, 3>>

\* C3 amended: that request selects A -> B -> C, the route of least distance
\* (10, against 11 for A -> C).
C3_ScenarioSelectsShortest ==
    ScenarioRequest(<<"D", "C", "T">>) =>
        /\ ret.route = <<1, 2, 3>>
        /\ ret.params = <<10, 2, 20>>
        /\ \E k \in 1..Len(candidate_routes) :
              candidate_routes[k] = [route |-> <<1, 3>>, params |-> <<11, 1, 1>>]

C3_Witness ==
    /\ ScenarioRequest(<<"D", "C", "T">>)
    /\ Len(candidate_routes) = 2

AllSearchesNone == \A i \in Criteria : Dijkstra(graph, call.start, call.end, i).path = NoRoute

\* C8: find_compromise_route raises nothing and returns None exactly when the
\* three searches return None; otherwise the candidates are not empty, no
\* filtering round empties them, and a route is returned.
C8_NoneOnlyWhenAllNone ==
    /\ pc # "failed"
    /\ pc = "candidates" => (candidate_routes # <<>> /\ ~AllSearchesNone)
    /\ CompromiseReturned =>
        /\ ret.route = NoRoute <=> candidate_routes = <<>>
        /\ candidate_routes = <<>> => AllSearchesNone
        /\ Filtered =>
              \A n \in 0..Len(call.priorities) :
                  FilterByPriorities(candidate_routes, SubSeq(call.priorities, 1, n)) # <<>>

\* A repeated tag in a partial list, with two candidates.
C8_Witness ==
    /\ Filtered
    /\ Len(candidate_routes) = 2
    /\ Len(call.priorities) = 2
    /\ call.priorities[1] = call.priorities[2]
    /\ ret.route # NoRoute

\* C10: the params reported for the route of a criterion agree, in that
\* criterion, with the weight the search returned.
C10_ParamsAgreeWithSearch ==
    (call.op = "optimal_routes" /\ ~ret.raised) =>
        \A i \in 1..3 : ret.routes[i] # NoRoute => ret.params[i][i] = ret.weights[i]

-----------------------------------------------------------------------------
(* Properties of get_route_params and of the cache *)

ParamsReturned == pc = "returned" /\ call.op = "get_route_params"

\* C4: for a route whose pairs all have an index entry, get_route_params
\* returns the sums of these entries, on a miss (which stores them under the
\* route) and on a hit; every cache entry holds the sums of its own node
\* sequence, so that two routes with the same endpoints share no entry.
C4_ParamsAreIndexSums ==
    /\ \A r \in DOMAIN route_cache :
          RouteValid(road_index, r) /\ route_cache[r] = IndexTotals(road_index, r)
    /\ (ParamsReturned /\ RouteValid(road_index, call.route)) =>
          /\ ~ret.raised
          /\ ret.value = IndexTotals(road_index, call.route)
          /\ call.route \in DOMAIN route_cache
          /\ route_cache[call.route] = ret.value

\* A hit on a route of three cities while the cache also holds the direct
\* route between the same endpoints, with other params.
C4_Witness ==
    /\ ParamsReturned
    /\ ret.hit
    /\ Len(call.route) = 3
    /\ \E r \in DOMAIN route_cache :
          /\ Len(r) = 2
          /\ r[1] = call.route[1]
          /\ r[2] = call.route[3]
          /\ route_cache[r] # ret.value

\* C5: every cache entry holds the sums of its route under the current index.
C5_CacheMatchesIndex ==
    \A r \in DOMAIN route_cache :
        RouteValid(road_index, r) /\ route_cache[r] = IndexTotals(road_index, r)

\* C9: a call with a route of which some pair has no index entry raises,
\* memoizes nothing for the route and leaves the cache as it was (so that any
\* later call with this route raises as well).
C9_MissingRoadRaises ==
    [][(pc' = "returned" /\ call'.op = "get_route_params" /\ ~RouteValid(road_index', call'.route)) =>
          /\ ret'.raised
          /\ route_cache' = route_cache
          /\ call'.route \notin DOMAIN route_cache']_vars

\* The second pair of a route of three cities is the missing one, and the
\* call was made on a cache that is not empty.
C9_Witness ==
    /\ ParamsReturned
    /\ ret.raised
    /\ Len(call.route) = 3
    /\ <<call.route[1], call.route[2]>> \in DOMAIN road_index
    /\ <<call.route[2], call.route[3]>> \notin DOMAIN road_index
    /\ route_cache # EmptyMap

====
